---- MODULE Spec2Model ----
(***************************************************************************)
(* Model of the JSON data manager of the movie web application             *)
(* (src/DataManager/json_data_manager.py) and of the metadata client it    *)
(* calls (src/DataManager/movie_api.py).                                   *)
(*                                                                         *)
(* The persisted state is the file system: a map from path to file         *)
(* content.  A file's content is the JSON document: a sequence of user     *)
(* objects {id, name, movies}, each movie an object {id, name, director,   *)
(* year, rating, poster, plot}.                                            *)
(*                                                                         *)
(* JSON values of fields whose type the code converts or fails to convert  *)
(* are tagged: a JSON string is JStr(<<characters>>), a JSON integer is    *)
(* JInt(n).  A Python float is held in tenths (8.8 is 88).  Strings that   *)
(* are only copied and compared are TLA+ strings.                          *)
(***************************************************************************)
EXTENDS Integers, Sequences, FiniteSets, TLC

VARIABLES files, filename, ret, last, before, calls, reqs, writes

vars == <<files, filename, ret, last, before, calls, reqs, writes>>

(* ------------------------------ bounds -------------------------------- *)

\* add_user is not taken once the store holds this many users
MaxUsers == 2
\* add_movie is not taken for a user who holds this many movies
MaxMovies == 2
\* No call is made after this many calls
MaxCalls == 4

(* --------------------------- JSON values ------------------------------ *)

JStr(chars) == [t |-> "str", s |-> chars, n |-> 0]
JInt(k) == [t |-> "int", s |-> <<>>, n |-> k]

DigitChars == {"0", "1", "2", "3", "4", "5", "6", "7", "8", "9"}

DigitVal(c) ==
  CASE c = "0" -> 0 [] c = "1" -> 1 [] c = "2" -> 2 [] c = "3" -> 3
    [] c = "4" -> 4 [] c = "5" -> 5 [] c = "6" -> 6 [] c = "7" -> 7
    [] c = "8" -> 8 [] c = "9" -> 9

IsDigits(chars) == Len(chars) > 0 /\ \A i \in 1..Len(chars) : chars[i] \in DigitChars

RECURSIVE DigitsVal(_)
DigitsVal(chars) ==
  IF chars = <<>> THEN 0
  ELSE 10 * DigitsVal(SubSeq(chars, 1, Len(chars) - 1)) + DigitVal(chars[Len(chars)])

\* The positions of "." in a character sequence
Dots(chars) == {i \in 1..Len(chars) : chars[i] = "."}

\* A conversion that yields 0.0 for what it cannot read instead of raising
PyFloatLenient(chars) ==
  IF IsDigits(chars) THEN [ok |-> TRUE, v |-> 10 * DigitsVal(chars)]
  ELSE IF Cardinality(Dots(chars)) = 1 /\ Len(chars) = 3
          /\ IsDigits(<<chars[1]>>) /\ IsDigits(<<chars[3]>>)
       THEN [ok |-> TRUE, v |-> 10 * DigitVal(chars[1]) + DigitVal(chars[3])]
       ELSE [ok |-> TRUE, v |-> 0]

\* float(s) for the strings the metadata service sends: "8.8" -> 88 tenths,
\* "9" -> 90; "N/A" (no rating known) raises ValueError.
PyFloat(chars) ==
  IF IsDigits(chars) THEN [ok |-> TRUE, v |-> 10 * DigitsVal(chars)]
  ELSE IF Cardinality(Dots(chars)) = 1
       THEN LET d == CHOOSE i \in Dots(chars) : TRUE
                ip == SubSeq(chars, 1, d - 1)
                fp == SubSeq(chars, d + 1, Len(chars))
            IN  IF IsDigits(ip) /\ Len(fp) = 1 /\ IsDigits(fp)
                THEN [ok |-> TRUE, v |-> 10 * DigitsVal(ip) + DigitsVal(fp)]
                ELSE [ok |-> FALSE, v |-> 0]
       ELSE [ok |-> FALSE, v |-> 0]

(* ------------------------------ files --------------------------------- *)

\* The path add_user writes to, whatever the store was constructed with
HardCodedPath == "DataManager/movie.json"
\* Another filename a store can be constructed with
OtherPath == "data/users.json"
Paths == {HardCodedPath, OtherPath}

NoFile == [exists |-> FALSE, doc |-> <<>>]
FileOf(doc) == [exists |-> TRUE, doc |-> doc]

\* get_data: the document of the store's file, [] when the file is missing
get_data(fs, fn) == IF fs[fn].exists THEN fs[fn].doc ELSE <<>>

\* save_data: the store's file replaced wholesale
save_data(fs, fn, new_data) == [fs EXCEPT ![fn] = FileOf(new_data)]

\* get_all_users: the name of every user, in storage order
get_all_users(fs, fn) ==
  LET data == get_data(fs, fn) IN [i \in 1..Len(data) |-> data[i].name]

(* ------------------------- metadata client ---------------------------- *)

\* What the service knows of two films; Year and imdbRating arrive as strings
Inception ==
  [Title |-> "Inception", Director |-> "Christopher Nolan",
   Year |-> <<"2", "0", "1", "0">>, imdbRating |-> <<"8", ".", "8">>,
   Poster |-> "inception.jpg", Plot |-> "A thief who steals secrets."]
Heat ==
  [Title |-> "Heat", Director |-> "Michael Mann",
   Year |-> <<"1", "9", "9", "5">>, imdbRating |-> <<"8", ".", "3">>,
   Poster |-> "heat.jpg", Plot |-> "A crew of robbers."]

\* A body with the fields in keep only
Restrict(body, keep) == [f \in DOMAIN body \cap keep |-> body[f]]

NotFoundBody == [Response |-> "False", Error |-> "Movie not found!"]

Answered(body) == [raised |-> FALSE, body |-> body]
\* requests.get or .json() raising (no network, a body that is not JSON)
RequestFailed == [raised |-> TRUE, body |-> <<>>]

\* search_movie(name): what the call can come back with.  The service answers
\* a query with the film's canonical record, with a record lacking a field,
\* with a record whose rating is unknown ("N/A"), or with an error body.
search_movie(name) ==
  IF name = "inception"
  THEN {Answered(Inception),
        Answered(Restrict(Inception, {"Title", "Director", "Year", "imdbRating", "Poster"})),
        Answered([Inception EXCEPT !.imdbRating = <<"N", "/", "A">>])}
  ELSE IF name = "heat"
  THEN {Answered(Heat), RequestFailed}
  ELSE {Answered(NotFoundBody)}

Queries == {"inception", "heat", "zzzz"}

(* --------------------------- data manager ----------------------------- *)

MaxOf(S) == CHOOSE m \in S : \A x \in S : x <= m

UserIdsOf(data) == {data[i].id : i \in 1..Len(data)}

\* An id generator that forgets the + 1
generate_user_id_max(data) ==
  IF data = <<>> THEN [ok |-> FALSE, id |-> 0]
  ELSE [ok |-> TRUE, id |-> MaxOf(UserIdsOf(data))]

\* An id generator with max(..., default=0): the empty store yields 1
generate_user_id_default0(data) ==
  IF data = <<>> THEN [ok |-> TRUE, id |-> 1]
  ELSE [ok |-> TRUE, id |-> MaxOf(UserIdsOf(data)) + 1]

\* generate_user_id: max of the ids + 1; max([]) raises ValueError
generate_user_id(data) ==
  IF data = <<>> THEN [ok |-> FALSE, id |-> 0]
  ELSE [ok |-> TRUE, id |-> MaxOf(UserIdsOf(data)) + 1]

\* A find_user_id that returns the list it built, empty or not, never None
find_user_id_list(data, user_id) ==
  [none |-> FALSE,
   ids |-> SelectSeq([i \in 1..Len(data) |-> data[i].id], LAMBDA x : x = user_id)]

\* find_user_id: the list of the matching ids, None when there is none
find_user_id(data, user_id) ==
  LET find_user_by_id == SelectSeq([i \in 1..Len(data) |-> data[i].id],
                                   LAMBDA x : x = user_id)
  IN  [none |-> find_user_by_id = <<>>, ids |-> find_user_by_id]

\* [movie for item in data if item['id'] == user_id for movie in item['movies']]
RECURSIVE MoviesOfUser(_, _)
MoviesOfUser(data, user_id) ==
  IF data = <<>> THEN <<>>
  ELSE (IF Head(data).id = user_id THEN Head(data).movies ELSE <<>>)
       \o MoviesOfUser(Tail(data), user_id)

\* generate_movie_id: the number of movies of the users found + 1
generate_movie_id(data, user_id) == Len(MoviesOfUser(data, user_id)) + 1

\* get_user_movies: the first matching user's movies, or the sentinel string
get_user_movies(data, user_id) ==
  IF \E i \in 1..Len(data) : data[i].id = user_id
  THEN LET i == CHOOSE k \in 1..Len(data) :
                  data[k].id = user_id /\ \A j \in 1..(k - 1) : data[j].id # user_id
       IN  [found |-> TRUE, movies |-> data[i].movies]
  ELSE [found |-> FALSE, movies |-> <<>>]

NoneRet == "None"
Result(fs, r) == [files |-> fs, ret |-> r]

\* add_user: the new user appended to the loaded document, which is written
\* to the hard-coded path; any exception becomes the returned string
add_user(fs, fn, name) ==
  LET data == get_data(fs, fn)
      new_id == generate_user_id(data)
  IN  IF ~new_id.ok
      THEN Result(fs, "Error occurred while adding user: max() arg is an empty sequence")
      ELSE LET new_user == [id |-> new_id.id, name |-> name, movies |-> <<>>]
           IN  Result([fs EXCEPT ![HardCodedPath] = FileOf(Append(data, new_user))],
                      NoneRet)

\* The fields add_movie reads of the response, in the order it reads them
MovieFields == <<"Title", "Director", "Year", "imdbRating", "Poster", "Plot">>

\* The first field of MovieFields the response lacks (0: none): its KeyError
FirstMissing(movie_data) ==
  IF \A i \in 1..Len(MovieFields) : MovieFields[i] \in DOMAIN movie_data THEN 0
  ELSE CHOOSE i \in 1..Len(MovieFields) :
         /\ MovieFields[i] \notin DOMAIN movie_data
         /\ \A j \in 1..(i - 1) : MovieFields[j] \in DOMAIN movie_data

\* The record add_movie compiles: Year is stored as it came, the rating as a float
new_movie(movie_id, movie_data) ==
  [id |-> movie_id,
   name |-> movie_data.Title,
   director |-> movie_data.Director,
   year |-> JStr(movie_data.Year),
   rating |-> PyFloat(movie_data.imdbRating).v,
   poster |-> movie_data.Poster,
   plot |-> movie_data.Plot]

\* [item['movies'].append(new_movie) for item in data if item['id'] == user_id]
AppendMovie(data, user_id, movie) ==
  [i \in 1..Len(data) |->
     IF data[i].id = user_id
     THEN [data[i] EXCEPT !.movies = Append(@, movie)]
     ELSE data[i]]

Outcome(save, data, r) == [save |-> save, data |-> data, ret |-> r]

\* A check that looks the title up among the user names instead
title_among_user_names(data, user_id, title) ==
  \E i \in 1..Len(data) : data[i].id = user_id /\ data[i].name = title

\* Lines 183-185: the title is among the names of that user's movies
movie_already_exists(data, user_id, title) ==
  LET check_movie_list == MoviesOfUser(data, user_id)
  IN  \E i \in 1..Len(check_movie_list) : check_movie_list[i].name = title

\* The body of add_movie on its working copy data (line 177), the lookup's
\* outcome found, and the document reloaded that generate_movie_id counts the
\* user's movies in (line 121).  Nothing is saved unless the movie is appended.
\* find_user_id loads the document too (line 106), but reads only the user
\* ids of it, which no call removes or changes.
add_movie_on(data, reloaded, found, user_id) ==
  IF found.raised
  THEN Outcome(FALSE, data, "error occurred while adding movie : request failed")
  ELSE IF find_user_id(data, user_id).none
  THEN Outcome(FALSE, data, NoneRet)
  ELSE LET movie_data == found.body
       IN  IF "Title" \notin DOMAIN movie_data
           THEN Outcome(FALSE, data, "error occurred while adding movie : 'Title'")
           ELSE IF movie_already_exists(data, user_id, movie_data.Title)
           THEN Outcome(FALSE, data, "Movie already exists")
           ELSE IF FirstMissing(movie_data) # 0
           THEN Outcome(FALSE, data, "error occurred while adding movie : missing field")
           ELSE IF ~PyFloat(movie_data.imdbRating).ok
           THEN Outcome(FALSE, data,
                        "error occurred while adding movie : could not convert string to float")
           ELSE Outcome(TRUE,
                        AppendMovie(data, user_id,
                                    new_movie(generate_movie_id(reloaded, user_id), movie_data)),
                        NoneRet)

\* add_movie called alone: every load reads the same document
add_movie(fs, fn, found, user_id) ==
  LET data == get_data(fs, fn)
      out == add_movie_on(data, data, found, user_id)
  IN  Result(IF out.save THEN save_data(fs, fn, out.data) ELSE fs, out.ret)

\* list.remove(x): the first element equal to x is dropped
RemoveFirst(lst, x) ==
  IF \E i \in 1..Len(lst) : lst[i] = x
  THEN LET i == CHOOSE k \in 1..Len(lst) :
                  lst[k] = x /\ \A j \in 1..(k - 1) : lst[j] # x
       IN  SubSeq(lst, 1, i - 1) \o SubSeq(lst, i + 1, Len(lst))
  ELSE lst

\* A renumbering that forgets start=1 and counts from 0
RenumberFrom0(lst) == [i \in 1..Len(lst) |-> [lst[i] EXCEPT !.id = i - 1]]

\* for index, movie_info in enumerate(movies, start=1): movie_info['id'] = index
Renumber(lst) == [i \in 1..Len(lst) |-> [lst[i] EXCEPT !.id = i]]

\* A delete_movie whose gap-filling loop runs whether or not a movie matched
delete_movie_on_renumbering(data, user_id, movie_id) ==
  LET movie_lst == MoviesOfUser(data, user_id)
      movie_info == SelectSeq(movie_lst, LAMBDA movie : movie.id = movie_id)
      kept == IF movie_info # <<>> THEN RemoveFirst(movie_lst, movie_info[1]) ELSE movie_lst
  IN  [i \in 1..Len(data) |->
         IF data[i].id = user_id
         THEN [data[i] EXCEPT !.movies = Renumber(kept)]
         ELSE data[i]]

\* The body of delete_movie on the loaded document.  With a match, the movie
\* list of every user of that id becomes the list without the first match,
\* renumbered; without one the document is left as loaded.
delete_movie_on(data, user_id, movie_id) ==
  LET movie_lst == MoviesOfUser(data, user_id)
      movie_info == SelectSeq(movie_lst, LAMBDA movie : movie.id = movie_id)
  IN  IF movie_info # <<>>
      THEN [i \in 1..Len(data) |->
              IF data[i].id = user_id
              THEN [data[i] EXCEPT !.movies = Renumber(RemoveFirst(movie_lst, movie_info[1]))]
              ELSE data[i]]
      ELSE data

\* delete_movie: the document is saved whether or not a movie matched
delete_movie(fs, fn, user_id, movie_id) ==
  Result(save_data(fs, fn, delete_movie_on(get_data(fs, fn), user_id, movie_id)), NoneRet)

\* dict.update: the fields given replace or extend the movie's
Merge(movie, info) ==
  [f \in DOMAIN movie \cup DOMAIN info |-> IF f \in DOMAIN info THEN info[f] ELSE movie[f]]

\* An inner loop without its break: every movie of that id is updated
UpdateEvery(movies, movie_id, info) ==
  [j \in 1..Len(movies) |->
     IF movies[j].id = movie_id THEN Merge(movies[j], info) ELSE movies[j]]

\* The inner loop of update_movie_info: the first movie of that id is updated
UpdateFirst(movies, movie_id, info) ==
  IF \E i \in 1..Len(movies) : movies[i].id = movie_id
  THEN LET i == CHOOSE k \in 1..Len(movies) :
                  movies[k].id = movie_id /\ \A j \in 1..(k - 1) : movies[j].id # movie_id
       IN  [movies EXCEPT ![i] = Merge(@, info)]
  ELSE movies

update_movie_info_on(data, user_id, movie_id, info) ==
  [i \in 1..Len(data) |->
     IF data[i].id = user_id
     THEN [data[i] EXCEPT !.movies = UpdateFirst(@, movie_id, info)]
     ELSE data[i]]

\* update_movie_info: the document is saved whether or not a movie matched
update_movie_info(fs, fn, user_id, movie_id, info) ==
  Result(save_data(fs, fn, update_movie_info_on(get_data(fs, fn), user_id, movie_id, info)),
         NoneRet)

(* ------------------------ inputs of the calls ------------------------- *)

UserNames == {"Bob", "Carol"}
ArgUserIds == 1..(MaxUsers + 1)
ArgMovieIds == 1..(MaxMovies + 1)

\* updated_movie_info: the web layer's {rating: float(form value)} and other
\* partial-field maps a caller of the data manager can pass
UpdateInfos == {[rating |-> 95], [name |-> "Heat"], [id |-> 2]}

NoInfo == <<>>
NoLookup == [raised |-> FALSE, body |-> <<>>]

\* The call made last: its name and arguments (the lookup's outcome included);
\* before holds the files as they were when that call began
Call(op, user_id, movie_id, name, info, found) ==
  [op |-> op, user_id |-> user_id, movie_id |-> movie_id, name |-> name,
   info |-> info, found |-> found]

(* --------------------------- initial state ---------------------------- *)

Alice(movies) == [id |-> 1, name |-> "Alice", movies |-> movies]

\* Documents the program leaves behind: no user, a user without movies, a
\* user with one movie beside a user with none
InitDocs ==
  { <<>>,
    << Alice(<<>>) >>,
    << Alice(<< new_movie(1, Heat) >>), [id |-> 2, name |-> "Bob", movies |-> <<>>] >> }

\* The requests served at once in the concurrent specification
Reqs == {1, 2}

\* A request not yet begun
IdleReq ==
  [pc |-> "idle", call |-> Call("none", 0, 0, "", NoInfo, NoLookup),
   loaded |-> <<>>, data |-> <<>>, stamp |-> 0, ret |-> NoneRet]

\* A store constructed with one of the filenames, over a file that is missing
\* (first run) or holds a document; no call made yet
Init ==
  /\ filename \in Paths
  /\ \E f \in {NoFile} \cup {FileOf(d) : d \in InitDocs} :
       files = [p \in Paths |-> IF p = filename THEN f ELSE NoFile]
  /\ ret = NoneRet
  /\ last = Call("none", 0, 0, "", NoInfo, NoLookup)
  /\ before = files
  /\ calls = 0
  /\ reqs = [r \in Reqs |-> IdleReq]
  /\ writes = <<>>

(* ------------------------- sequential calls --------------------------- *)

Store == get_data(files, filename)

Apply(res, call) ==
  /\ calls < MaxCalls
  /\ calls' = calls + 1
  /\ files' = res.files
  /\ ret' = res.ret
  /\ last' = call
  /\ before' = files
  /\ UNCHANGED <<filename, reqs, writes>>

AddUser ==
  \E name \in UserNames :
    /\ Len(Store) < MaxUsers
    /\ Apply(add_user(files, filename, name),
             Call("add_user", 0, 0, name, NoInfo, NoLookup))

AddMovie ==
  \E movie_name \in Queries, user_id \in ArgUserIds :
    \E found \in search_movie(movie_name) :
      /\ Len(MoviesOfUser(Store, user_id)) < MaxMovies
      /\ Apply(add_movie(files, filename, found, user_id),
               Call("add_movie", user_id, 0, movie_name, NoInfo, found))

DeleteMovie ==
  \E user_id \in ArgUserIds, movie_id \in ArgMovieIds :
    Apply(delete_movie(files, filename, user_id, movie_id),
          Call("delete_movie", user_id, movie_id, "", NoInfo, NoLookup))

UpdateMovieInfo ==
  \E user_id \in ArgUserIds, movie_id \in ArgMovieIds, info \in UpdateInfos :
    Apply(update_movie_info(files, filename, user_id, movie_id, info),
          Call("update_movie_info", user_id, movie_id, "", info, NoLookup))

Next == AddUser \/ AddMovie \/ DeleteMovie \/ UpdateMovieInfo

Spec == Init /\ [][Next]_vars

(* ------------------------- concurrent requests ------------------------ *)
(* Two requests served at once by the web server, each running add_movie   *)
(* or delete_movie on the one store.  Nothing in the data manager locks:   *)
(* a request's steps are its loads (get_data) and its write (save_data),   *)
(* each atomic, and they interleave freely with the other request's.       *)
(* writes is the order in which the requests wrote; a request's stamp is   *)
(* the number of writes that had happened when it loaded its working copy. *)

\* Lines 177 and 215: the request loads the document as its working copy.
\* For add_movie the lookup's outcome is drawn here; it reads no state.
Begin(r) ==
  /\ reqs[r].pc = "idle"
  /\ \E call \in
        {Call("add_movie", u, 0, q, NoInfo, f) :
           u \in ArgUserIds, q \in Queries, f \in UNION {search_movie(x) : x \in Queries}}
        \cup {Call("delete_movie", u, m, "", NoInfo, NoLookup) :
                u \in ArgUserIds, m \in ArgMovieIds} :
       /\ call.op = "add_movie" => call.found \in search_movie(call.name)
       /\ reqs' = [reqs EXCEPT ![r] =
                     [pc |-> "loaded", call |-> call, loaded |-> Store, data |-> Store,
                      stamp |-> Len(writes), ret |-> NoneRet]]
  /\ UNCHANGED <<files, filename, ret, last, before, calls, writes>>

\* Lines 179-198: add_movie checks and compiles the movie on its working
\* copy; generate_movie_id loads the document again (line 121) to count the
\* user's movies.  A call that is rejected or fails returns here, unsaved.
Generate(r) ==
  /\ reqs[r].pc = "loaded"
  /\ reqs[r].call.op = "add_movie"
  /\ LET out == add_movie_on(reqs[r].data, Store, reqs[r].call.found, reqs[r].call.user_id)
     IN  reqs' = [reqs EXCEPT ![r].pc = IF out.save THEN "built" ELSE "done",
                              ![r].data = out.data,
                              ![r].ret = out.ret]
  /\ UNCHANGED <<files, filename, ret, last, before, calls, writes>>

\* A request that applied its change to the file as it is when it writes
WrittenOnCurrent(req, current) ==
  IF req.call.op = "delete_movie"
  THEN delete_movie_on(current, req.call.user_id, req.call.movie_id)
  ELSE LET mine == MoviesOfUser(req.data, req.call.user_id)
       IN  AppendMovie(current, req.call.user_id, mine[Len(mine)])

\* The document a request hands to save_data (lines 199 and 237): its own
\* working copy after its change, whatever the file holds by now
Written(req, current) ==
  IF req.call.op = "delete_movie"
  THEN delete_movie_on(req.data, req.call.user_id, req.call.movie_id)
  ELSE req.data

\* Lines 199 and 237: save_data replaces the file with the working copy
Persist(r) ==
  /\ \/ reqs[r].pc = "built"
     \/ reqs[r].pc = "loaded" /\ reqs[r].call.op = "delete_movie"
  /\ LET new_data == Written(reqs[r], Store)
     IN  /\ files' = save_data(files, filename, new_data)
         /\ reqs' = [reqs EXCEPT ![r].pc = "done", ![r].data = new_data]
  /\ writes' = Append(writes, r)
  /\ UNCHANGED <<filename, ret, last, before, calls>>

NextConc == \E r \in Reqs : Begin(r) \/ Generate(r) \/ Persist(r)

SpecConc == Init /\ [][NextConc]_vars

(* ------------------------------ claims -------------------------------- *)

\* The store's document before the last call
Pre == get_data(before, filename)

MovieIdsOf(movies) == {movies[j].id : j \in 1..Len(movies)}
MovieNamesOf(movies) == {movies[j].name : j \in 1..Len(movies)}
HasUser(data, user_id) == \E i \in 1..Len(data) : data[i].id = user_id

\* C1: after any sequence of add_user, add_movie, delete_movie and
\* update_movie_info calls, every user's movie ids are 1..N, N the number of
\* that user's movies.
C1_MovieIdsAre1toN ==
  \A i \in 1..Len(Store) :
    MovieIdsOf(Store[i].movies) = 1..Len(Store[i].movies)

\* The position of the only movie of id k in a list whose ids are distinct
PosOfId(movies, k) == CHOOSE p \in 1..Len(movies) : movies[p].id = k

\* The case of C2: the last call was delete_movie(user_id, k) on a user that
\* held N movies of ids 1..N, 1 <= k <= N
C2_Case ==
  /\ last.op = "delete_movie"
  /\ \E i \in 1..Len(Pre) :
       /\ Pre[i].id = last.user_id
       /\ MovieIdsOf(Pre[i].movies) = 1..Len(Pre[i].movies)
       /\ last.movie_id \in 1..Len(Pre[i].movies)

\* C2: delete_movie(user_id, k) removes exactly the movie of id k, keeps
\* the others in their order with ids 1..N-1 and their other fields as they
\* were, and leaves every other user as it was.
C2_DeleteRenumbers ==
  C2_Case =>
    /\ Len(Store) = Len(Pre)
    /\ \A i \in 1..Len(Pre) :
         IF Pre[i].id # last.user_id THEN Store[i] = Pre[i]
         ELSE LET old == Pre[i].movies
                  new == Store[i].movies
                  p == PosOfId(old, last.movie_id)
              IN  /\ Store[i].id = Pre[i].id
                  /\ Store[i].name = Pre[i].name
                  /\ Len(new) = Len(old) - 1
                  /\ \A j \in 1..Len(new) :
                       new[j] = [old[IF j < p THEN j ELSE j + 1] EXCEPT !.id = j]

\* C2 happens: a movie that was not the last one of two was deleted
C2_Witness ==
  /\ C2_Case
  /\ \E i \in 1..Len(Pre) :
       /\ Pre[i].id = last.user_id
       /\ Len(Pre[i].movies) >= 2
       /\ last.movie_id < Len(Pre[i].movies)

\* The case of C3: the last call was add_movie for an existing user, the
\* lookup returned a Title, and the user already held a movie of that name
C3_Case ==
  /\ last.op = "add_movie"
  /\ ~last.found.raised
  /\ "Title" \in DOMAIN last.found.body
  /\ HasUser(Pre, last.user_id)
  /\ last.found.body.Title \in MovieNamesOf(MoviesOfUser(Pre, last.user_id))

\* C3: add_movie of a title the user already holds returns 'Movie already
\* exists' and changes no file.
C3_DuplicateRejected ==
  C3_Case => ret = "Movie already exists" /\ files = before

\* C3 happens: a duplicate was offered to a user holding a movie
C3_Witness == C3_Case /\ Len(MoviesOfUser(Store, last.user_id)) >= 1

\* C4: no user's collection holds two movies of the same name.
C4_NamesUnique ==
  \A i \in 1..Len(Store) :
    \A j, k \in 1..Len(Store[i].movies) :
      j # k => Store[i].movies[j].name # Store[i].movies[k].name

\* max(existing user ids, default 0)
MaxIdOr0(data) == IF data = <<>> THEN 0 ELSE MaxOf(UserIdsOf(data))

\* C5: add_user(name) on any store, the empty one included, appends a user
\* of id max(ids, default 0) + 1 without movies, and the list of user names
\* grows by exactly that name.
C5_AddUserAppends ==
  last.op = "add_user" =>
    /\ Store = Append(Pre, [id |-> MaxIdOr0(Pre) + 1, name |-> last.name, movies |-> <<>>])
    /\ get_all_users(files, filename) = Append(get_all_users(before, filename), last.name)

\* The other files of the file system are as they were before the last call
OtherFilesKept == \A p \in Paths \ {filename} : files[p] = before[p]

\* A movie of that id in the collection of a user of that id
HasMovie(data, user_id, movie_id) ==
  \E i \in 1..Len(data) :
    data[i].id = user_id /\ movie_id \in MovieIdsOf(data[i].movies)

\* The case of C6: the last call was update_movie_info(user_id, movie_id,
\* {rating: v}) on a pair that matched a movie
C6_Case ==
  /\ last.op = "update_movie_info"
  /\ DOMAIN last.info = {"rating"}
  /\ HasMovie(Pre, last.user_id, last.movie_id)

\* C6: update_movie_info with {rating: v} on an existing pair sets the
\* rating of that one movie to v and changes nothing else: not its other
\* fields, not the user's other movies, not the other users.
C6_OnlyRatingChanges ==
  C6_Case =>
    /\ Len(Store) = Len(Pre)
    /\ OtherFilesKept
    /\ \A i \in 1..Len(Pre) :
         IF ~(Pre[i].id = last.user_id /\ last.movie_id \in MovieIdsOf(Pre[i].movies))
         THEN Store[i] = Pre[i]
         ELSE LET old == Pre[i].movies
                  p == CHOOSE k \in 1..Len(old) :
                         old[k].id = last.movie_id
                         /\ \A j \in 1..(k - 1) : old[j].id # last.movie_id
              IN  Store[i] = [Pre[i] EXCEPT
                                !.movies = [old EXCEPT ![p] = [@ EXCEPT !.rating = last.info.rating]]]

\* C6 happens: the rating of a movie was changed, in a collection of two
C6_Witness ==
  /\ C6_Case
  /\ Store # Pre
  /\ Len(MoviesOfUser(Pre, last.user_id)) >= 2

\* The case of C7: the last call was add_movie for an existing user, the
\* lookup returned every field with a numeric rating, and the user held no
\* movie of the canonical title
C7_Case ==
  /\ last.op = "add_movie"
  /\ ~last.found.raised
  /\ FirstMissing(last.found.body) = 0
  /\ PyFloat(last.found.body.imdbRating).ok
  /\ IsDigits(last.found.body.Year)
  /\ HasUser(Pre, last.user_id)
  /\ last.found.body.Title \notin MovieNamesOf(MoviesOfUser(Pre, last.user_id))

\* C7: such an add_movie appends one movie of id N + 1 whose name, director,
\* poster and plot are the response's, whose year is the integer value of
\* Year and whose rating is the numeric value of imdbRating; the movies held
\* before and the other users are unchanged.
C7_AddMovieAppends ==
  C7_Case =>
    LET r == last.found.body
        added(n) == [id |-> n + 1, name |-> r.Title, director |-> r.Director,
                     year |-> JInt(DigitsVal(r.Year)),
                     rating |-> PyFloat(r.imdbRating).v,
                     poster |-> r.Poster, plot |-> r.Plot]
    IN  /\ Len(Store) = Len(Pre)
        /\ \A i \in 1..Len(Pre) :
             IF Pre[i].id # last.user_id THEN Store[i] = Pre[i]
             ELSE Store[i] = [Pre[i] EXCEPT !.movies = Append(@, added(Len(@)))]

UniqueUserIds(data) ==
  \A i, j \in 1..Len(data) : i # j => data[i].id # data[j].id

\* The last call was an add_user that wrote its new user
AddUserDone == last.op = "add_user" /\ ret = NoneRet

\* The user add_user wrote: the last one of the document at the path it writes
AssignedUser ==
  LET written == files[HardCodedPath].doc IN written[Len(written)]

\* C8: user ids are pairwise distinct; no call removes a user id from the
\* store, and the id add_user assigns is greater than every user id of the
\* store before the call (hence than every id ever present: none is reused).
C8_UserIdsUniqueAndFresh ==
  /\ UniqueUserIds(Store)
  /\ UserIdsOf(Pre) \subseteq UserIdsOf(Store)
  /\ AddUserDone => \A id \in UserIdsOf(Pre) : AssignedUser.id > id

\* C8 happens: add_user added a user to a store that held one
C8_Witness ==
  /\ AddUserDone
  /\ Len(Pre) >= 1
  /\ Len(Store) = Len(Pre) + 1
  /\ Store[Len(Store)] = AssignedUser

\* The case of C10: the last call was delete_movie or update_movie_info with
\* a (user_id, movie_id) pair that matched no movie
C10_Case ==
  /\ last.op \in {"delete_movie", "update_movie_info"}
  /\ ~HasMovie(Pre, last.user_id, last.movie_id)

\* C10: such a call leaves the store's document and the other files as they
\* were and returns no error.
C10_NoMatchNoChange ==
  C10_Case => Store = Pre /\ OtherFilesKept /\ ret = NoneRet

\* C10 happens: delete_movie named a movie id the user does not hold, the
\* user holding a movie whose id is not its position
C10_Witness ==
  /\ C10_Case
  /\ last.op = "delete_movie"
  /\ \E i \in 1..Len(Pre) :
       /\ Pre[i].id = last.user_id
       /\ Len(Pre[i].movies) >= 1
       /\ Pre[i].movies[1].id # 1

\* C10 happens for update_movie_info too: an unknown user
C10_WitnessUpdate ==
  /\ C10_Case
  /\ last.op = "update_movie_info"
  /\ Len(Pre) >= 1
  /\ ~HasUser(Pre, last.user_id)

\* A document with every movie id blanked
StripIds(data) ==
  [i \in 1..Len(data) |->
     [data[i] EXCEPT !.movies = [j \in 1..Len(@) |-> [@[j] EXCEPT !.id = 0]]]]

\* The document a request would write if it ran alone on what it loaded
Alone(req) ==
  IF req.call.op = "delete_movie"
  THEN delete_movie_on(req.loaded, req.call.user_id, req.call.movie_id)
  ELSE add_movie_on(req.loaded, req.loaded, req.call.found, req.call.user_id).data

\* The case of C9: both requests loaded before either wrote, and both wrote
C9_Case ==
  /\ Len(writes) = 2
  /\ \A r \in Reqs : reqs[r].pc = "done" /\ reqs[r].stamp = 0

\* C9: when both requests load before either persists, the document left is
\* the one the last persist wrote, and it is what the last writer's change
\* alone makes of the document both loaded (up to the id the new movie got):
\* the first writer's change is not in it.
C9_LastPersistWins ==
  C9_Case =>
    /\ reqs[1].loaded = reqs[2].loaded
    /\ Store = reqs[writes[2]].data
    /\ StripIds(Store) = StripIds(Alone(reqs[writes[2]]))

\* C9 happens, and an update is lost: the first writer added a movie to a
\* user, the last writer added another to another user, and the first
\* writer's movie is in no collection of the document left
C9_Witness ==
  /\ C9_Case
  /\ LET first == reqs[writes[1]]
         second == reqs[writes[2]]
     IN  /\ first.call.op = "add_movie"
         /\ second.call.op = "add_movie"
         /\ first.call.user_id # second.call.user_id
         /\ first.data # first.loaded
         /\ second.data # second.loaded
         /\ \A i \in 1..Len(Store) :
              first.call.found.body.Title \notin MovieNamesOf(Store[i].movies)

\* The strings add_movie returns for an exception it caught
AddMovieErrors ==
  {"error occurred while adding movie : request failed",
   "error occurred while adding movie : 'Title'",
   "error occurred while adding movie : missing field",
   "error occurred while adding movie : could not convert string to float"}

\* A rating written as digits, or as digits, a point and digits
NumericRating(chars) ==
  \/ IsDigits(chars)
  \/ \E d \in 2..(Len(chars) - 1) :
       /\ chars[d] = "."
       /\ IsDigits(SubSeq(chars, 1, d - 1))
       /\ IsDigits(SubSeq(chars, d + 1, Len(chars)))

\* The lookup failed, or its response lacks a field or has no numeric rating
BadLookup(found) ==
  \/ found.raised
  \/ \E f \in {"Title", "Director", "Year", "imdbRating", "Poster", "Plot"} :
       f \notin DOMAIN found.body
  \/ ~NumericRating(found.body.imdbRating)

\* The case of C11: the last call was add_movie for an existing user and
\* the lookup came back failed, partial or without a numeric rating
C11_Case ==
  /\ last.op = "add_movie"
  /\ HasUser(Pre, last.user_id)
  /\ BadLookup(last.found)

\* The response carries a Title the user already held
C11_TitleHeld ==
  /\ ~last.found.raised
  /\ "Title" \in DOMAIN last.found.body
  /\ last.found.body.Title \in MovieNamesOf(MoviesOfUser(Pre, last.user_id))

\* C11 as stated: such an add_movie returns the lookup failure as an error
\* value and changes no file.
C11_LookupFailureReported ==
  C11_Case => ret \in AddMovieErrors /\ files = before

\* C11 as amended: such an add_movie returns an error value and changes no
\* file; the value is the lookup failure unless the response carries a Title
\* the user already holds, and then it is 'Movie already exists'.
C11_BadLookupRejected ==
  C11_Case =>
    /\ files = before
    /\ IF C11_TitleHeld THEN ret = "Movie already exists" ELSE ret \in AddMovieErrors

\* C11 happens: a response without a numeric rating for a title the user
\* does not hold, the user holding a movie
C11_Witness ==
  /\ C11_Case
  /\ ~C11_TitleHeld
  /\ ~last.found.raised
  /\ FirstMissing(last.found.body) = 0
  /\ Len(MoviesOfUser(Pre, last.user_id)) >= 1

\* The case of C12: the last call was add_movie for a user id not in the store
C12_Case == last.op = "add_movie" /\ ~HasUser(Pre, last.user_id)

\* C12: add_movie for an unknown user changes no file and returns (None, or
\* the error string of a lookup that raised), whatever the lookup returned.
C12_UnknownUserNoChange ==
  C12_Case =>
    /\ files = before
    /\ ret = IF last.found.raised
             THEN "error occurred while adding movie : request failed"
             ELSE NoneRet

\* C12 happens: a complete response for a user id the store, which holds
\* users, does not know
C12_Witness ==
  /\ C12_Case
  /\ Len(Pre) >= 1
  /\ ~BadLookup(last.found)

EmptyStoreError == "Error occurred while adding user: max() arg is an empty sequence"

\* C13: on a store without users add_user returns the empty-store error and
\* changes no file, and the store stays without users whatever is called.
C13_EmptyStoreStaysEmpty ==
  Pre = <<>> =>
    /\ Store = <<>>
    /\ last.op = "add_user" => ret = EmptyStoreError /\ files = before

\* C13 happens: add_user was called on the empty store, and not for the
\* first time
C13_Witness ==
  /\ last.op = "add_user"
  /\ Pre = <<>>
  /\ calls >= 2
  /\ ret = EmptyStoreError

\* C14: whatever filename the store was constructed with, after a
\* successful add_user(name) the document load() reads has grown by the new
\* user, and the user names end with name.
C14_AddUserVisible ==
  AddUserDone =>
    /\ Len(Store) = Len(Pre) + 1
    /\ Store[Len(Store)] = AssignedUser
    /\ LET names == get_all_users(files, filename)
       IN  names # <<>> /\ names[Len(names)] = last.name

\* C15: under any interleaving of concurrent add_movie and delete_movie
\* requests, every document persisted has each user's movie ids equal to 1..N.
C15_PersistedIdsAre1toN ==
  \A i \in 1..Len(Store) :
    MovieIdsOf(Store[i].movies) = 1..Len(Store[i].movies)

====
